---- MODULE Spec2Model ----
(***************************************************************************)
(* A model of the re-signing pipeline of src/signing.py (class IPASigner). *)
(* One run of IPASigner.sign_ipa is modelled as a state machine over the   *)
(* signer's fields and the part of the disk the run touches: the scratch   *)
(* directory made by create_temp_dir, the tree extracted under             *)
(* <temp_dir>/ipa_contents, and the output archive written by package_ipa. *)
(*                                                                         *)
(* A file path is a sequence of names relative to the extraction root      *)
(* (extract_dir), e.g. <<"Payload", "A.app", "Info.plist">>.  A tree is a  *)
(* function from the paths of its files to their contents; a directory     *)
(* exists when some file lies under it.                                    *)
(***************************************************************************)
EXTENDS Integers, Sequences, FiniteSets, TLC

VARIABLES
    ipa,              \* input archive at ipa_path: entry path -> content
    file_size,        \* size of each entry of the input archive
    p12,              \* the uploaded certificate container, as the password fits it
    password,         \* self.p12_password: a sequence of bytes
    cert_outcome,     \* how far extract_certificates got ("" before it ran)
    pc,               \* position of the run inside sign_ipa
    temp_dir,         \* self.temp_dir
    cert_path,        \* self.cert_path
    key_path,         \* self.key_path
    app_path,         \* self.app_path (a path, or <<>> for None)
    signed_ipa_path,  \* self.signed_ipa_path
    scratch,          \* TRUE while the directory temp_dir exists on disk
    tmpfiles,         \* names of the files directly inside temp_dir
    tree,             \* files under temp_dir/ipa_contents: path -> content
    outzip,           \* the archive at signed_ipa_path: arc path -> content
    outzip_exists,    \* TRUE while a file exists at signed_ipa_path
    todo,             \* files the os.walk of sign_ipa has not yet visited
    bundle0,          \* the bundle's files when the signing walk started
    sign_calls,       \* files that were passed to sign_file
    signed,           \* files for which sign_file returned True
    raised,           \* the stage whose exception reached sign_ipa's except
    fault,            \* the external call that failed and made it raise
    write_failed,     \* files whose zf.write raised inside package_ipa
    cleanup_error,    \* the release operation that raised inside cleanup
    result,           \* the pair sign_ipa returns
    call_args,        \* positional arguments of a generate_manifest call
    manifest,         \* what that call produced
    req,              \* the /sign requests in progress: request -> its state
    clock,            \* datetime.now(), in seconds
    mkdtemps,         \* number of directories tempfile.mkdtemp has made
    handler           \* what sign_app did after sign_ipa returned

run_vars == <<ipa, file_size, p12, password, cert_outcome, pc, temp_dir, cert_path, key_path, app_path,
          signed_ipa_path, scratch, tmpfiles, tree, outzip, outzip_exists,
          todo, bundle0, sign_calls, signed, raised, fault, write_failed,
          cleanup_error, result>>

manifest_vars == <<call_args, manifest>>

request_vars == <<req, clock, mkdtemps>>

handler_vars == <<handler>>

vars == <<run_vars, manifest_vars, request_vars, handler_vars>>

(***************************************************************************)
(* Bounds of the model.                                                    *)
(***************************************************************************)
\* largest size of one entry of the input archive
MaxFileSize == 3
\* size of the profile file and of one DER signature written by openssl cms
ProfileSize == 1
SigSize == 1
\* how many zf.write calls of one package_ipa run may raise
MaxWriteFailures == 1

\* the number of entries of an input archive
MaxEntries == 3

\* the last second of the clock of the two-request model
MaxClock == 2

(***************************************************************************)
(* Strings, as Python's str methods compute them.                          *)
(***************************************************************************)
EndsWith(s, suffix) ==
    /\ Len(suffix) <= Len(s)
    /\ SubSeq(s, Len(s) - Len(suffix) + 1, Len(s)) = suffix

StartsWith(s, prefix) ==
    /\ Len(prefix) <= Len(s)
    /\ SubSeq(s, 1, Len(prefix)) = prefix

\* `sub in s`
Contains(s, sub) ==
    \E i \in 1..(Len(s) - Len(sub) + 1) : SubSeq(s, i, i + Len(sub) - 1) = sub

LowerChar(c) ==
    CASE c = "A" -> "a" [] c = "B" -> "b" [] c = "C" -> "c" [] c = "D" -> "d"
      [] c = "E" -> "e" [] c = "F" -> "f" [] c = "G" -> "g" [] c = "H" -> "h"
      [] c = "I" -> "i" [] c = "J" -> "j" [] c = "K" -> "k" [] c = "L" -> "l"
      [] c = "M" -> "m" [] c = "N" -> "n" [] c = "O" -> "o" [] c = "P" -> "p"
      [] c = "Q" -> "q" [] c = "R" -> "r" [] c = "S" -> "s" [] c = "T" -> "t"
      [] c = "U" -> "u" [] c = "V" -> "v" [] c = "W" -> "w" [] c = "X" -> "x"
      [] c = "Y" -> "y" [] c = "Z" -> "z" [] OTHER -> c

RECURSIVE Lower(_)
Lower(s) ==
    IF Len(s) = 0 THEN ""
    ELSE LowerChar(SubSeq(s, 1, 1)) \o Lower(SubSeq(s, 2, Len(s)))

(***************************************************************************)
(* Paths and trees.                                                        *)
(***************************************************************************)
None == <<>>

\* os.path.join(dir, name)
Join(dir, name) == Append(dir, name)

\* os.path.dirname / os.path.basename
Dirname(p) == SubSeq(p, 1, Len(p) - 1)
Basename(p) == p[Len(p)]

\* p lies strictly below the directory dir
Under(p, dir) ==
    /\ Len(p) > Len(dir)
    /\ SubSeq(p, 1, Len(dir)) = dir

\* os.path.exists(p) inside a tree: a file, or a directory holding a file
Exists(t, p) == p \in DOMAIN t \/ \E q \in DOMAIN t : Under(q, p)

\* os.listdir(dir)
ListDir(t, dir) == { q[Len(dir) + 1] : q \in { r \in DOMAIN t : Under(r, dir) } }

\* every file os.walk(dir) yields, in all directories below dir
WalkFiles(t, dir) == { q \in DOMAIN t : Under(q, dir) }

\* os.path.relpath(file_path, extract_dir) as the archive writes it
RECURSIVE ArcName(_)
ArcName(p) ==
    IF Len(p) = 1 THEN p[1] ELSE p[1] \o "/" \o ArcName(Tail(p))

\* the tree t with the file at p set to content c
WriteFile(t, p, c) == [q \in DOMAIN t \cup {p} |-> IF q = p THEN c ELSE t[q]]

EmptyTree == [q \in {} |-> 0]

(***************************************************************************)
(* File contents.  A content is a record: tag "bytes" is opaque data,      *)
(* "plist" a property list holding CFBundleIdentifier = id, "plist_noid" a *)
(* property list without that key, "profile" the uploaded provisioning     *)
(* profile, and "sig" the DER CMS signature openssl writes over the        *)
(* content named by its over and id fields.                                *)
(***************************************************************************)
Bytes(name) == [tag |-> "bytes", id |-> name, over |-> ""]

ProfileBytes == [tag |-> "profile", id |-> "embedded", over |-> ""]

\* the output of `openssl cms -sign -binary -outform DER -in c`
Sig(c) == [tag |-> "sig", id |-> c.id, over |-> c.tag]

\* os.path.getsize of a file holding content c
Size(c, fsize) ==
    CASE c.tag = "sig" -> SigSize
      [] c.tag = "profile" -> ProfileSize
      [] OTHER -> fsize

RECURSIVE SumSizes(_, _, _)
SumSizes(z, paths, fsize) ==
    IF paths = {} THEN 0
    ELSE LET p == CHOOSE q \in paths : TRUE
         IN Size(z[p], fsize) + SumSizes(z, paths \ {p}, fsize)

\* os.path.getsize of an archive with entries z: the entries' sizes added up
\* (container overhead and compression ratio alike for input and output)
ZipSize(z, fsize) == SumSizes(z, DOMAIN z, fsize)

(***************************************************************************)
(* The inputs of a run: the uploaded archive, certificate container and    *)
(* profile.                                                                *)
(***************************************************************************)
AppA == <<"Payload", "A.app">>
AppB == <<"Payload", "B.app">>

\* the entries an input archive may hold
Entries ==
    { Join(AppA, "Info.plist"),
      Join(AppA, "AppBin"),
      AppA \o <<"Frameworks", "lib.dylib">>,
      Join(AppA, "icon.png"),
      Join(AppA, ".DS_Store"),
      Join(AppB, "Info.plist"),
      AppB \o <<"Contents", "Info.plist">>,
      <<"Payload", "readme.txt">>,
      <<"payload", "A.app", "Info.plist">>,
      <<"iTunesMetadata.plist">> }

\* what an Info.plist entry of the input archive may hold
PlistKinds == { "plist", "plist_noid", "bytes" }

EntryContent(p, kind) ==
    IF Basename(p) = "Info.plist"
    THEN [tag |-> kind, id |-> p[2], over |-> ""]
    ELSE Bytes(Basename(p))

Archives ==
    { [p \in S |-> EntryContent(p, k)] :
        S \in { E \in SUBSET Entries : Cardinality(E) <= MaxEntries },
        k \in PlistKinds }

\* the container opens with the password and holds an iOS signing identity;
\* the password is wrong; the container opens but its certificate's subject
\* is not that of an iOS signing identity
P12Kinds == { "good", "wrong_password", "not_ios" }

\* the passwords of the model, as bytes: "p", "q", and two that are not UTF-8
Passwords == { <<112>>, <<113>>, <<254>>, <<255>> }

NoResult == [ret |-> "none", value |-> ""]

NoManifest == [error |-> "", items |-> <<>>]

\* sign_app has not yet gone on after sign_ipa
NoHandler ==
    [flash |-> "", bundle_id |-> "", manifest |-> NoManifest, committed |-> FALSE]

\* no generate_manifest call is under way
NoManifestCall ==
    /\ call_args = <<>>
    /\ manifest = NoManifest

\* no /sign request is under way
NoRequests ==
    /\ req = <<>>
    /\ clock = 0
    /\ mkdtemps = 0

\* IPASigner.__init__: every path field but the inputs starts as None
Init ==
    /\ ipa \in Archives
    /\ file_size \in 1..MaxFileSize
    /\ p12 \in P12Kinds
    /\ password \in Passwords
    /\ cert_outcome = ""
    /\ pc = "create_temp_dir"
    /\ temp_dir = None
    /\ cert_path = None
    /\ key_path = None
    /\ app_path = None
    /\ signed_ipa_path = None
    /\ scratch = FALSE
    /\ tmpfiles = {}
    /\ tree = EmptyTree
    /\ outzip = EmptyTree
    /\ outzip_exists = FALSE
    /\ todo = {}
    /\ bundle0 = EmptyTree
    /\ sign_calls = {}
    /\ signed = {}
    /\ raised = ""
    /\ fault = ""
    /\ write_failed = {}
    /\ cleanup_error = ""
    /\ result = NoResult
    /\ NoManifestCall
    /\ NoRequests
    /\ handler = NoHandler

\* no IPASigner of the single-run model is at work
NoRun ==
    /\ ipa = EmptyTree
    /\ file_size = 1
    /\ p12 = "good"
    /\ password = <<112>>
    /\ cert_outcome = ""
    /\ pc = "idle"
    /\ handler = NoHandler
    /\ temp_dir = None
    /\ cert_path = None
    /\ key_path = None
    /\ app_path = None
    /\ signed_ipa_path = None
    /\ scratch = FALSE
    /\ tmpfiles = {}
    /\ tree = EmptyTree
    /\ outzip = EmptyTree
    /\ outzip_exists = FALSE
    /\ todo = {}
    /\ bundle0 = EmptyTree
    /\ sign_calls = {}
    /\ signed = {}
    /\ raised = ""
    /\ fault = ""
    /\ write_failed = {}
    /\ cleanup_error = ""
    /\ result = NoResult

(***************************************************************************)
(* sign_ipa's except clause: any exception of a stage becomes the pair     *)
(* (False, "Signing failed: <message>"), and the finally clause runs next. *)
(* ext names the external call (file system, zipfile, openssl) whose       *)
(* failure made the stage raise, "" when the stage rejected its input.     *)
(***************************************************************************)
\* a variant in which cleanup is not in a finally clause: a failing stage
\* returns at once
FailSkipsCleanup(stage, ext, msg) ==
    /\ raised' = stage
    /\ fault' = ext
    /\ result' = [ret |-> "fail", value |-> "Signing failed: " \o msg]
    /\ pc' = "done"

\* a variant without the except clause: the exception leaves sign_ipa and no
\* pair is returned
FailPropagates(stage, ext, msg) ==
    /\ raised' = stage
    /\ fault' = ext
    /\ result' = result
    /\ pc' = "cleanup"

Fail(stage, ext, msg) ==
    /\ raised' = stage
    /\ fault' = ext
    /\ result' = [ret |-> "fail", value |-> "Signing failed: " \o msg]
    /\ pc' = "cleanup"

(***************************************************************************)
(* create_temp_dir, called first by sign_ipa.                              *)
(***************************************************************************)
CreateTempDir ==
    /\ pc = "create_temp_dir"
    /\ \E mkdtemp_ok \in BOOLEAN :
         IF mkdtemp_ok
         THEN /\ temp_dir' = <<"tmp">>
              /\ scratch' = TRUE
              /\ pc' = "extract_ipa"
              /\ UNCHANGED <<raised, fault, result>>
         ELSE /\ Fail("create_temp_dir", "mkdtemp", "Failed to create temp directory: <OSError>")
              /\ UNCHANGED <<temp_dir, scratch>>
    /\ UNCHANGED <<manifest_vars, request_vars, handler_vars>>
    /\ UNCHANGED <<ipa, file_size, p12, password, cert_outcome,
                   cert_path, key_path, app_path,
                   signed_ipa_path, tmpfiles, tree, outzip, outzip_exists,
                   todo, bundle0, sign_calls, signed, write_failed,
                   cleanup_error>>

(***************************************************************************)
(* extract_ipa.  The steps are operators over the extracted tree; the      *)
(* action below puts them together in the order of the code.               *)
(***************************************************************************)
\* the Payload directory: "Payload" if it exists, else any top-level entry
\* whose lower-cased name is "payload" (the first one os.listdir returns)
PayloadDirs(t) ==
    IF Exists(t, <<"Payload">>)
    THEN { <<"Payload">> }
    ELSE { <<n>> : n \in { m \in ListDir(t, <<>>) : Lower(m) = "payload" } }

\* a variant that takes every entry of the Payload directory as a bundle
AppDirsAnyEntry(t, payload_dir) == ListDir(t, payload_dir)

\* app_dirs: the entries of the Payload directory that end in ".app"
AppDirs(t, payload_dir) ==
    { n \in ListDir(t, payload_dir) : EndsWith(n, ".app") }

\* possible_plist_locations, in the order they are checked
PlistLocations(app, payload_dir) ==
    << Join(app, "Info.plist"),
       app \o <<"Contents", "Info.plist">>,
       app \o <<"_CodeSignature", "Info.plist">>,
       <<"Info.plist">>,
       Join(payload_dir, "Info.plist") >>

\* the Info.plist files the recursive os.walk(app_path) may find first: the
\* walk is top-down, so a file is not found before one in a directory above
WalkPlists(t, app) ==
    LET found == { q \in WalkFiles(t, app) : Basename(q) = "Info.plist" }
    IN { q \in found :
           ~ \E r \in found : Under(Dirname(q), Dirname(r)) }

\* the values info_plist_path may take; the empty set when none is found
InfoPlistPaths(t, app, payload_dir) ==
    LET locs == PlistLocations(app, payload_dir)
        hits == { i \in 1..Len(locs) : Exists(t, locs[i]) }
    IN IF hits # {}
       THEN { locs[CHOOSE i \in hits : \A j \in hits : i <= j] }
       ELSE WalkPlists(t, app)

\* a variant of extract_ipa without the "Verify Info.plist is valid" step
PlistCheckSkipped(t, p) == ""

\* plistlib.load of the file at p, then the CFBundleIdentifier check
PlistCheck(t, p) ==
    IF p \notin DOMAIN t \/ t[p].tag \notin { "plist", "plist_noid" }
    THEN "Invalid Info.plist: <InvalidFileException>"
    ELSE IF t[p].tag = "plist_noid"
    THEN "Invalid Info.plist: Info.plist is missing CFBundleIdentifier"
    ELSE ""

\* extract_ipa after the archive was unpacked into t: the outcomes
\* [err, app, tree] it may end in; err = "" when it returns True
ExtractOutcomes(t) ==
    IF PayloadDirs(t) = {}
    THEN { [err |-> "Invalid IPA structure: Payload directory not found",
            ext |-> "", app |-> None, tree |-> t] }
    ELSE UNION { IF AppDirs(t, pd) = {}
                 THEN { [err |-> "No .app directory found in Payload",
                         ext |-> "", app |-> None, tree |-> t] }
                 ELSE UNION { LET app == Join(pd, name)
                                  std == Join(app, "Info.plist")
                              IN IF InfoPlistPaths(t, app, pd) = {}
                                 THEN { [err |-> "Info.plist not found in app bundle",
                                         ext |-> "", app |-> app, tree |-> t] }
                                 ELSE { IF src \notin DOMAIN t
                                        THEN [err |-> "<IsADirectoryError>",
                                              ext |-> "copy2", app |-> app, tree |-> t]
                                        ELSE LET t2 == IF src # std
                                                       THEN WriteFile(t, std, t[src])
                                                       ELSE t
                                             IN [err |-> PlistCheck(t2, std),
                                                 ext |-> "", app |-> app, tree |-> t2]
                                        : src \in InfoPlistPaths(t, app, pd) }
                              : name \in AppDirs(t, pd) }
               : pd \in PayloadDirs(t) }

ExtractIpa ==
    /\ pc = "extract_ipa"
    /\ \E zip_ok \in BOOLEAN :
         IF ~ zip_ok
         THEN /\ Fail("extract_ipa", "zipfile", "Failed to extract IPA: <BadZipFile>")
              /\ UNCHANGED <<tree, app_path>>
         ELSE \E o \in ExtractOutcomes(ipa) :
                /\ tree' = o.tree
                /\ app_path' = o.app
                /\ IF o.err = ""
                   THEN /\ pc' = "copy_provision"
                        /\ UNCHANGED <<raised, fault, result>>
                   ELSE Fail("extract_ipa", o.ext, "Failed to extract IPA: " \o o.err)
    /\ UNCHANGED <<manifest_vars, request_vars, handler_vars>>
    /\ UNCHANGED <<ipa, file_size, p12, password, cert_outcome,
                   temp_dir, cert_path, key_path,
                   signed_ipa_path, scratch, tmpfiles, outzip, outzip_exists,
                   todo, bundle0, sign_calls, signed, write_failed,
                   cleanup_error>>

(***************************************************************************)
(* copy_provision: the uploaded profile is copied into the bundle as       *)
(* embedded.mobileprovision.                                               *)
(***************************************************************************)
EmbeddedPath(app) == Join(app, "embedded.mobileprovision")

CopyProvision ==
    /\ pc = "copy_provision"
    /\ \E copy_ok \in BOOLEAN :
         IF app_path = None
         THEN /\ Fail("copy_provision", "", "Failed to copy provision: App path not set")
              /\ UNCHANGED tree
         ELSE IF copy_ok
         THEN /\ tree' = WriteFile(tree, EmbeddedPath(app_path), ProfileBytes)
              /\ pc' = "extract_certificates"
              /\ UNCHANGED <<raised, fault, result>>
         ELSE /\ Fail("copy_provision", "copy2", "Failed to copy provision: <OSError>")
              /\ UNCHANGED tree
    /\ UNCHANGED <<manifest_vars, request_vars, handler_vars>>
    /\ UNCHANGED <<ipa, file_size, p12, password, cert_outcome,
                   temp_dir, cert_path, key_path, app_path,
                   signed_ipa_path, scratch, tmpfiles, outzip, outzip_exists,
                   todo, bundle0, sign_calls, signed, write_failed,
                   cleanup_error>>

(***************************************************************************)
(* extract_certificates: openssl.cnf is written, then openssl pkcs12 runs  *)
(* twice (certificate, key) and the two outputs are verified.              *)
(***************************************************************************)
\* self.p12_password.decode(): the positions of the bytes that cannot occur
\* in UTF-8 (0xF5..0xFF)
Undecodable(pw) == { i \in 1..Len(pw) : pw[i] >= 245 }

Digit(n) == SubSeq("0123456789abcdef", n + 1, n + 1)

HexByte(b) == "0x" \o Digit(b \div 16) \o Digit(b % 16)

\* str() of the UnicodeDecodeError that decode() raises
DecodeError(pw) ==
    LET i == CHOOSE k \in Undecodable(pw) : \A j \in Undecodable(pw) : k <= j
    IN "'utf-8' codec can't decode byte " \o HexByte(pw[i]) \o " in position "
         \o Digit(i - 1) \o ": invalid start byte"

\* the outcomes in which a subprocess.run call, made without a timeout,
\* never returns because the tool never exits
CertHangs == { "cert_cmd_hangs", "key_cmd_hangs", "verify_hangs" }

\* a variant in which the exit status of openssl pkcs12 is not looked at: a
\* wrong password goes as far as a right one
CertOutcomesAnyPassword(container, pw) ==
    IF Undecodable(pw) # {}
    THEN { "config_fails", "decode_fails" }
    ELSE { "config_fails", "cert_cmd_fails", "key_cmd_fails", "verify_fails", "ok" }
           \cup CertHangs

\* how far extract_certificates gets; "ok" when it returns True.  A wrong
\* password makes the first openssl pkcs12 call exit with a non-zero status.
CertOutcomes(container, pw) ==
    IF Undecodable(pw) # {}
    THEN { "config_fails", "decode_fails" }
    ELSE IF container = "wrong_password"
    THEN { "config_fails", "cert_cmd_fails", "cert_cmd_hangs" }
    ELSE { "config_fails", "cert_cmd_fails", "key_cmd_fails", "verify_fails", "ok" }
           \cup CertHangs

\* the files the outcome leaves in temp_dir; an openssl call that fails or
\* hangs may or may not have created its -out file (made_out)
CertFiles(outcome, made_out) ==
    CASE outcome = "config_fails" -> {}
      [] outcome = "decode_fails" -> { "openssl.cnf" }
      [] outcome \in { "cert_cmd_fails", "cert_cmd_hangs" } ->
           { "openssl.cnf" } \cup (IF made_out THEN { "cert.pem" } ELSE {})
      [] outcome \in { "key_cmd_fails", "key_cmd_hangs" } ->
           { "openssl.cnf", "cert.pem" } \cup (IF made_out THEN { "key.pem" } ELSE {})
      [] OTHER -> { "openssl.cnf", "cert.pem", "key.pem" }

\* str(e) of the exception extract_certificates catches
CertError(outcome, pw) ==
    CASE outcome = "config_fails" -> "<OSError>"
      [] outcome = "decode_fails" -> DecodeError(pw)
      [] outcome = "verify_fails" -> "Invalid certificate or private key"
      [] OTHER -> "Certificate extraction failed: <stderr>"

\* the external call behind a failure of extract_certificates; a non-zero
\* exit of openssl pkcs12 on a wrong password, and a password that does not
\* decode, are the input being rejected
CertFault(outcome, container) ==
    CASE outcome = "config_fails" -> "open"
      [] outcome = "decode_fails" -> ""
      [] container = "wrong_password" -> ""
      [] OTHER -> "openssl"

\* the test `file.endswith(('.dylib', ''))` of the signing walk
MatchesSuffix(file) == EndsWith(file, ".dylib") \/ EndsWith(file, "")

\* the files of the walk that sign_ipa passes to sign_file
IsCandidate(t, p) ==
    /\ MatchesSuffix(Basename(p))
    /\ p \in DOMAIN t
    /\ ~ StartsWith(Basename(p), ".")

ExtractCertificates ==
    /\ pc = "extract_certificates"
    /\ \E outcome \in CertOutcomes(p12, password), made_out \in BOOLEAN :
         /\ cert_outcome' = outcome
         /\ cert_path' = <<"tmp", "cert.pem">>
         /\ key_path' = <<"tmp", "key.pem">>
         /\ tmpfiles' = tmpfiles \cup CertFiles(outcome, made_out)
         /\ IF outcome = "ok"
            THEN /\ pc' = "sign"
                 /\ todo' = WalkFiles(tree, app_path)
                 /\ bundle0' = tree
                 /\ UNCHANGED <<raised, fault, result>>
            ELSE IF outcome \in CertHangs
            THEN /\ pc' = "hung"
                 /\ UNCHANGED <<todo, bundle0, raised, fault, result>>
            ELSE /\ Fail("extract_certificates",
                         CertFault(outcome, p12),
                         "Failed to extract certificates: " \o CertError(outcome, password))
                 /\ UNCHANGED <<todo, bundle0>>
    /\ UNCHANGED <<manifest_vars, request_vars, handler_vars>>
    /\ UNCHANGED <<ipa, file_size, p12, password,
                   temp_dir, app_path, signed_ipa_path,
                   scratch, tree, outzip, outzip_exists, sign_calls, signed,
                   write_failed, cleanup_error>>

(***************************************************************************)
(* sign_file and the signing walk of sign_ipa.                             *)
(***************************************************************************)
\* how far sign_file gets: the copy to content.bin, the openssl cms call,
\* the move of signature.sig over the file, the removal of content.bin
SignOutcomes ==
    { "copy_fails", "cms_fails", "cms_hangs", "move_fails", "remove_fails", "ok" }

\* sign_file(f): the value it returns and the disk it leaves behind
SignFile(t, tmp, f, outcome) ==
    IF temp_dir = None \/ cert_path = None \/ key_path = None
    THEN [ret |-> FALSE, tree |-> t, tmpfiles |-> tmp]
    ELSE CASE outcome = "copy_fails" ->
                [ret |-> FALSE, tree |-> t, tmpfiles |-> tmp]
           [] outcome \in { "cms_fails", "cms_hangs" } ->
                [ret |-> FALSE, tree |-> t, tmpfiles |-> tmp \cup { "content.bin" }]
           [] outcome = "move_fails" ->
                [ret |-> FALSE, tree |-> t,
                 tmpfiles |-> tmp \cup { "content.bin", "signature.sig" }]
           [] outcome = "remove_fails" ->
                [ret |-> FALSE, tree |-> WriteFile(t, f, Sig(t[f])),
                 tmpfiles |-> tmp \cup { "content.bin" }]
           [] OTHER ->
                [ret |-> TRUE, tree |-> WriteFile(t, f, Sig(t[f])),
                 tmpfiles |-> tmp \ { "content.bin", "signature.sig" }]

\* `if not self.sign_file(file_path): raise ValueError(...)`
\* a variant that goes on with the next file whatever sign_file returned
SignFailureIgnored(ret) == FALSE

SignFailureRaises(ret) == ~ ret

\* one iteration of the loop over os.walk(self.app_path); the order in which
\* the walk yields the files is the directory listing's
SignNext ==
    /\ pc = "sign"
    /\ \E f \in todo :
         /\ todo' = todo \ { f }
         /\ IF IsCandidate(tree, f)
            THEN \E outcome \in SignOutcomes :
                   LET r == SignFile(tree, tmpfiles, f, outcome)
                   IN /\ sign_calls' = sign_calls \cup { f }
                      /\ tree' = r.tree
                      /\ tmpfiles' = r.tmpfiles
                      /\ signed' = IF r.ret THEN signed \cup { f } ELSE signed
                      /\ IF outcome = "cms_hangs" /\ temp_dir # None
                         THEN /\ pc' = "hung"
                              /\ UNCHANGED <<raised, fault, result>>
                         ELSE IF SignFailureRaises(r.ret)
                         THEN Fail("sign_file", outcome, "Failed to sign " \o Basename(f))
                         ELSE UNCHANGED <<pc, raised, fault, result>>
            ELSE UNCHANGED <<pc, tree, tmpfiles, sign_calls, signed, raised, fault, result>>
    /\ UNCHANGED <<manifest_vars, request_vars, handler_vars>>
    /\ UNCHANGED <<ipa, file_size, p12, password, cert_outcome,
                   temp_dir, cert_path, key_path, app_path,
                   signed_ipa_path, scratch, outzip, outzip_exists, bundle0,
                   write_failed, cleanup_error>>

(***************************************************************************)
(* package_ipa.                                                            *)
(***************************************************************************)
\* os.path.relpath(p, dir)
RelPath(p, dir) == SubSeq(p, Len(dir) + 1, Len(p))

\* extract_dir of extract_ipa, relative to temp_dir
IpaContents == <<"ipa_contents">>

\* the files under temp_dir by their path relative to it: the extracted tree
\* under ipa_contents, and the files written directly into temp_dir
TempDisk(t, tmp) ==
    [p \in { IpaContents \o q : q \in DOMAIN t } \cup { <<n>> : n \in tmp } |->
       IF Under(p, IpaContents) THEN t[RelPath(p, IpaContents)] ELSE Bytes(p[1])]

\* a variant that packages from temp_dir itself
ExtractDirIsTempDir(app) == <<>>

\* extract_dir of package_ipa, relative to temp_dir: two levels above the
\* bundle
ExtractDir(app) == Dirname(Dirname(IpaContents \o app))

\* the archive written from the files under extract_dir, without the files
\* whose zf.write raised
Packed(t, extract_dir, failed) ==
    LET files == WalkFiles(t, extract_dir) \ failed
        arcs == { RelPath(p, extract_dir) : p \in files }
    IN [a \in arcs |-> t[extract_dir \o a]]

\* the test `signed_size < original_size * 0.5`
\* a variant with the fraction 0.05 in place of 0.5
TooSmallTwentieth(signed_size, original_size) == 20 * signed_size < original_size

TooSmall(signed_size, original_size) == 2 * signed_size < original_size

\* the checks package_ipa makes on the archive it wrote; "" when all pass
PackageCheck(z, original, fsize) ==
    IF TooSmall(ZipSize(z, fsize), ZipSize(original, fsize))
    THEN "Signed IPA is too small"
    ELSE IF ~ \E a \in DOMAIN z : StartsWith(ArcName(a), "Payload/")
    THEN "Missing Payload directory in signed IPA"
    ELSE IF ~ \E a \in DOMAIN z : Contains(ArcName(a), "Info.plist")
    THEN "Missing Info.plist in signed IPA"
    ELSE ""

\* the sets of files whose zf.write may raise in one run
WriteFailures(files) ==
    { F \in SUBSET files : Cardinality(F) <= MaxWriteFailures }

SignedIpaPath == <<"uploads", "signed.ipa">>

\* a variant in which package_ipa does not wait for the end of the walk
WalkDoneEarly(remaining) == TRUE

\* the loop over os.walk has visited every file
WalkDone(remaining) == remaining = {}

PackageIpa ==
    /\ pc = "sign"
    /\ WalkDone(todo)
    /\ IF app_path = None
       THEN /\ Fail("package_ipa", "", "Failed to package IPA: App path not set")
            /\ UNCHANGED <<signed_ipa_path, outzip, outzip_exists, write_failed>>
       ELSE LET extract_dir == ExtractDir(app_path)
                disk == TempDisk(tree, tmpfiles)
            IN /\ signed_ipa_path' = SignedIpaPath
               /\ \E zip_ok \in BOOLEAN :
                    IF ~ zip_ok
                    THEN /\ Fail("package_ipa", "zipfile", "Failed to package IPA: <OSError>")
                         /\ UNCHANGED <<outzip, outzip_exists, write_failed>>
                    ELSE \E failed \in WriteFailures(WalkFiles(disk, extract_dir)) :
                           LET z == Packed(disk, extract_dir, failed)
                               err == PackageCheck(z, ipa, file_size)
                           IN /\ outzip' = z
                              /\ outzip_exists' = TRUE
                              /\ write_failed' = { RelPath(f, IpaContents) : f \in failed }
                              /\ IF err = ""
                                 THEN /\ result' = [ret |-> "ok", value |-> "signed.ipa"]
                                      /\ pc' = "cleanup"
                                      /\ UNCHANGED <<raised, fault>>
                                 ELSE Fail("package_ipa", "", "Failed to package IPA: " \o err)
    /\ UNCHANGED <<manifest_vars, request_vars, handler_vars>>
    /\ UNCHANGED <<ipa, file_size, p12, password, cert_outcome,
                   temp_dir, cert_path, key_path, app_path,
                   scratch, tmpfiles, tree, todo, bundle0, sign_calls, signed,
                   cleanup_error>>

(***************************************************************************)
(* cleanup, run by the finally clause of sign_ipa.                         *)
(***************************************************************************)
\* the release operation that may raise, if any
CleanupFaults == { "none", "remove_cert", "remove_key", "rmtree" }

\* cleanup with the given fault: the three releases run in order inside one
\* try block, so the first one that raises ends the block
CleanupDisk(failing) ==
    LET has_cert == cert_path # None /\ scratch /\ "cert.pem" \in tmpfiles
        has_key == key_path # None /\ scratch /\ "key.pem" \in tmpfiles
        has_dir == temp_dir # None /\ scratch
        tmp1 == IF has_cert THEN tmpfiles \ { "cert.pem" } ELSE tmpfiles
        tmp2 == IF has_key THEN tmp1 \ { "key.pem" } ELSE tmp1
    IN IF has_cert /\ failing = "remove_cert"
       THEN [err |-> "remove_cert", scratch |-> scratch, tmpfiles |-> tmpfiles,
             tree |-> tree]
       ELSE IF has_key /\ failing = "remove_key"
       THEN [err |-> "remove_key", scratch |-> scratch, tmpfiles |-> tmp1,
             tree |-> tree]
       ELSE IF has_dir /\ failing = "rmtree"
       THEN [err |-> "rmtree", scratch |-> scratch, tmpfiles |-> tmp2,
             tree |-> tree]
       ELSE IF has_dir
       THEN [err |-> "", scratch |-> FALSE, tmpfiles |-> {}, tree |-> EmptyTree]
       ELSE [err |-> "", scratch |-> scratch, tmpfiles |-> tmp2, tree |-> tree]

\* a variant of cleanup without its own try block: the exception of a
\* release leaves the finally clause and takes the place of the pair
CleanupErrorEscapes(res, err) ==
    IF err # "" THEN [ret |-> "none", value |-> "<OSError>"] ELSE res

\* cleanup catches the exception of a release and prints "Cleanup error: ...";
\* sign_ipa then returns the pair res that its try block determined
CleanupReturns(res, err) == res

\* the finally clause, then the return of the pair the try block determined
Cleanup ==
    /\ pc = "cleanup"
    /\ \E failing \in CleanupFaults :
         LET d == CleanupDisk(failing)
         IN /\ scratch' = d.scratch
            /\ tmpfiles' = d.tmpfiles
            /\ tree' = d.tree
            /\ cleanup_error' = d.err
            /\ result' = CleanupReturns(result, d.err)
    /\ pc' = "done"
    /\ UNCHANGED <<manifest_vars, request_vars, handler_vars>>
    /\ UNCHANGED <<ipa, file_size, p12, password, cert_outcome,
                   temp_dir, cert_path, key_path, app_path,
                   signed_ipa_path, outzip, outzip_exists, todo, bundle0,
                   sign_calls, signed, raised, fault, write_failed>>

(***************************************************************************)
(* generate_manifest, as a function of the positional arguments of a call. *)
(***************************************************************************)
BundleIds == { "com.example.app", "com.example.other", "org.test.demo" }

PackageUrls == { "https://host/download/x.ipa", "https://host/download/y.ipa" }

Titles == { "Signed App", "Demo" }

IconUrls == { "https://host/download/icon.png", "https://host/download/big.png" }

\* the calls: the three required arguments, then none, one or two more (the
\* handler passes icon_url and full_size_icon_url as fourth and fifth)
ManifestCalls ==
    { <<b, u, t>> \o extra :
        b \in BundleIds, u \in PackageUrls, t \in Titles,
        extra \in { <<>> } \cup { <<i>> : i \in IconUrls }
                    \cup { <<i, j>> : i \in IconUrls, j \in IconUrls } }

\* generate_manifest(bundle_id, app_url, title, version='1.0'): a fourth
\* positional argument is the version, a fifth is a TypeError.  The value is
\* the dictionary handed to plistlib.dumps.
GenerateManifest(args) ==
    IF Len(args) < 3 \/ Len(args) > 4
    THEN [error |-> "TypeError", items |-> <<>>]
    ELSE [error |-> "",
          items |-> << [assets |-> << [kind |-> "software-package",
                                       url |-> args[2]] >>,
                        metadata |-> [bundle_identifier |-> args[1],
                                      bundle_version |-> IF Len(args) = 4
                                                         THEN args[4] ELSE "1.0",
                                      kind |-> "software",
                                      platform_identifier |-> "ios",
                                      title |-> args[3]]] >>]

(***************************************************************************)
(* sign_app, from the return of sign_ipa on: on success the bundle id is   *)
(* read back from the bundle, the manifest is generated and written, and   *)
(* the SignedApp record is committed; any exception is caught and flashed. *)
(***************************************************************************)
\* extract_bundle_id on the disk as it is when the handler calls it
ExtractBundleId(t, app) ==
    LET info_plist == Join(app, "Info.plist")
    IN IF app = None
       THEN [err |-> "Failed to extract bundle ID: App path not set", id |-> ""]
       ELSE IF ~ Exists(t, info_plist)
       THEN [err |-> "Failed to extract bundle ID: Info.plist not found at: <path>",
             id |-> ""]
       ELSE IF info_plist \notin DOMAIN t \/ t[info_plist].tag \notin { "plist", "plist_noid" }
       THEN [err |-> "Failed to extract bundle ID: Failed to parse Info.plist: <InvalidFileException>",
             id |-> ""]
       ELSE IF t[info_plist].tag = "plist_noid"
       THEN [err |-> "Failed to extract bundle ID: Bundle identifier not found in Info.plist",
             id |-> ""]
       ELSE [err |-> "", id |-> t[info_plist].id]

\* icon_url / full_size_icon_url when no icon was uploaded
NoIcon == "None"

\* the success branch of sign_app with the given icon URLs
SignAppSuccess(icon_url, full_size_icon_url) ==
    LET b == ExtractBundleId(tree, app_path)
        app_url == "https://host/download/" \o result.value
        m == GenerateManifest(<<b.id, app_url, "Signed App", icon_url, full_size_icon_url>>)
    IN IF b.err # ""
       THEN [flash |-> "Signing process failed: " \o b.err, bundle_id |-> "",
             manifest |-> NoManifest, committed |-> FALSE]
       ELSE IF m.error # ""
       THEN [flash |-> "Signing process failed: <" \o m.error \o ">", bundle_id |-> b.id,
             manifest |-> NoManifest, committed |-> FALSE]
       ELSE [flash |-> "App signed successfully", bundle_id |-> b.id,
             manifest |-> m, committed |-> TRUE]

SignAppFinish ==
    /\ pc = "done"
    /\ handler = NoHandler
    /\ IF result.ret = "ok"
       THEN \E icon_url \in IconUrls \cup { NoIcon },
               full_size_icon_url \in IconUrls \cup { NoIcon } :
              handler' = SignAppSuccess(icon_url, full_size_icon_url)
       ELSE handler' = [flash |-> "Error signing app: " \o result.value,
                        bundle_id |-> "", manifest |-> NoManifest,
                        committed |-> FALSE]
    /\ UNCHANGED <<run_vars, manifest_vars, request_vars>>

Next ==
    \/ CreateTempDir
    \/ ExtractIpa
    \/ CopyProvision
    \/ ExtractCertificates
    \/ SignNext
    \/ PackageIpa
    \/ Cleanup
    \/ SignAppFinish

Spec == Init /\ [][Next]_vars

(***************************************************************************)
(* generate_manifest called on its own.                                    *)
(***************************************************************************)
InitManifest ==
    /\ NoRun
    /\ NoRequests
    /\ call_args \in ManifestCalls
    /\ manifest = NoManifest

GenerateManifestCall ==
    /\ manifest = NoManifest
    /\ call_args # <<>>
    /\ manifest' = GenerateManifest(call_args)
    /\ UNCHANGED <<call_args, run_vars, request_vars, handler_vars>>

NextManifest == GenerateManifestCall

SpecManifest == InitManifest /\ [][NextManifest]_vars

(***************************************************************************)
(* Two /sign requests handled at the same time, each by its own sign_app   *)
(* call and its own IPASigner.  Only the paths each request reads and      *)
(* writes are followed; every stage succeeds.                              *)
(***************************************************************************)
Requests == { 1, 2 }

\* secure_filename(file.filename) of the uploaded archive and container
IpaNames == { "a.ipa", "b.ipa" }

P12Names == { "c.p12", "d.p12" }

UploadDir == <<"static", "uploads">>

\* os.path.splitext(name)[0]: the name up to its last dot
Stem(name) ==
    LET dots == { i \in 2..Len(name) : SubSeq(name, i, i) = "." }
    IN IF dots = {}
       THEN name
       ELSE SubSeq(name, 1, (CHOOSE i \in dots : \A j \in dots : j <= i) - 1)

\* datetime.now().strftime('%Y%m%d_%H%M%S') at second t of the model's minute
Stamp(t) == "20260101_12000" \o Digit(t)

\* signed_name of package_ipa
SignedName(ipa_name, t) == Stem(ipa_name) \o "_signed_" \o Stamp(t) \o ".ipa"

\* tempfile.mkdtemp(): a directory that did not exist before
MkDtemp(n) == <<"tmp", "tmp" \o Digit(n)>>

NewRequest(ipa_name, p12_name) ==
    [pc |-> "save", ipa_name |-> ipa_name, p12_name |-> p12_name,
     temp_dir |-> None, signed_ipa_path |-> None, writes |-> {}, reads |-> {}]

InitRequests ==
    /\ NoRun
    /\ NoManifestCall
    /\ req \in [Requests -> { NewRequest(i, c) : i \in IpaNames, c \in P12Names }]
    /\ clock = 0
    /\ mkdtemps = 0

IpaPath(r) == Join(UploadDir, req[r].ipa_name)

P12Path(r) == Join(UploadDir, req[r].p12_name)

\* sign_app: ipa_file.save(ipa_path), p12_file.save(p12_path)
SaveUploads(r) ==
    /\ req[r].pc = "save"
    /\ req' = [req EXCEPT ![r].pc = "create_temp_dir",
                          ![r].writes = @ \cup { IpaPath(r), P12Path(r) }]
    /\ UNCHANGED <<clock, mkdtemps, run_vars, manifest_vars, handler_vars>>

RequestCreateTempDir(r) ==
    /\ req[r].pc = "create_temp_dir"
    /\ mkdtemps' = mkdtemps + 1
    /\ req' = [req EXCEPT ![r].pc = "extract_ipa",
                          ![r].temp_dir = MkDtemp(mkdtemps),
                          ![r].writes = @ \cup { MkDtemp(mkdtemps) }]
    /\ UNCHANGED <<clock, run_vars, manifest_vars, handler_vars>>

\* extract_ipa: the archive at ipa_path is unpacked under temp_dir
RequestExtractIpa(r) ==
    /\ req[r].pc = "extract_ipa"
    /\ req' = [req EXCEPT ![r].pc = "extract_certificates",
                          ![r].reads = @ \cup { IpaPath(r) },
                          ![r].writes = @ \cup { Join(req[r].temp_dir, "ipa_contents") }]
    /\ UNCHANGED <<clock, mkdtemps, run_vars, manifest_vars, handler_vars>>

\* extract_certificates: openssl reads p12_path and writes the credential
\* files under temp_dir
RequestExtractCertificates(r) ==
    /\ req[r].pc = "extract_certificates"
    /\ req' = [req EXCEPT ![r].pc = "package_ipa",
                          ![r].reads = @ \cup { P12Path(r) },
                          ![r].writes = @ \cup { Join(req[r].temp_dir, "openssl.cnf"),
                                                 Join(req[r].temp_dir, "cert.pem"),
                                                 Join(req[r].temp_dir, "key.pem") }]
    /\ UNCHANGED <<clock, mkdtemps, run_vars, manifest_vars, handler_vars>>

\* package_ipa: the output archive is written next to the input archive
RequestPackageIpa(r) ==
    /\ req[r].pc = "package_ipa"
    /\ LET out == Join(Dirname(IpaPath(r)), SignedName(Basename(IpaPath(r)), clock))
       IN req' = [req EXCEPT ![r].pc = "done",
                             ![r].signed_ipa_path = out,
                             ![r].writes = @ \cup { out }]
    /\ UNCHANGED <<clock, mkdtemps, run_vars, manifest_vars, handler_vars>>

\* a second passes
Tick ==
    /\ clock < MaxClock
    /\ clock' = clock + 1
    /\ UNCHANGED <<req, mkdtemps, run_vars, manifest_vars, handler_vars>>

NextRequests ==
    \/ \E r \in Requests : SaveUploads(r)
    \/ \E r \in Requests : RequestCreateTempDir(r)
    \/ \E r \in Requests : RequestExtractIpa(r)
    \/ \E r \in Requests : RequestExtractCertificates(r)
    \/ \E r \in Requests : RequestPackageIpa(r)
    \/ Tick

SpecRequests == InitRequests /\ [][NextRequests]_vars

(***************************************************************************)
(* Properties of the pipeline.                                             *)
(***************************************************************************)
\* a file of the scratch directory is on disk
OnDisk(name) == scratch /\ name \in tmpfiles

\* sign_ipa has returned
Returned == pc = "done"

\* the extensions the design fixes as resources: property lists, images,
\* fonts, text and markup, the profile
ResourceExtensions ==
    { ".plist", ".png", ".jpg", ".ttf", ".txt", ".xml", ".strings",
      ".mobileprovision" }

IsResourceName(name) == \E e \in ResourceExtensions : EndsWith(name, e)

SignFailed == sign_calls # signed /\ pc # "hung"

\* the files of the bundle the signing walk passes to sign_file
Candidates == { f \in WalkFiles(bundle0, app_path) : IsCandidate(bundle0, f) }

C4_StageFailureBecomesResult ==
    Returned =>
      /\ result.ret \in { "ok", "fail" }
      /\ raised # "" =>
           result.ret = "fail" /\ StartsWith(result.value, "Signing failed: ")
      /\ result.ret = "fail" => raised # ""
      /\ result.ret = "ok" =>
           /\ raised = ""
           /\ app_path # None
           /\ Join(app_path, "Info.plist") \in DOMAIN bundle0
           /\ EmbeddedPath(app_path) \in DOMAIN bundle0
           /\ cert_path # None /\ key_path # None
           /\ todo = {} /\ sign_calls = signed /\ Candidates \subseteq signed
           /\ signed_ipa_path # None /\ outzip_exists
           /\ result.value = "signed.ipa"

\* a run whose credential extraction raised
C4_Witness ==
    /\ Returned
    /\ raised = "extract_certificates"
    /\ result.ret = "fail"

\* the input is valid: a good credential, and exactly one Payload/<name>.app
\* that holds a valid Info.plist and at least one executable or library
ValidInput ==
    /\ p12 = "good"
    /\ Cardinality(AppDirs(ipa, <<"Payload">>)) = 1
    /\ \E name \in AppDirs(ipa, <<"Payload">>) :
         LET app == <<"Payload", name>>
         IN /\ Join(app, "Info.plist") \in DOMAIN ipa
            /\ ipa[Join(app, "Info.plist")].tag = "plist"
            /\ \E f \in WalkFiles(ipa, app) :
                 /\ ~ IsResourceName(Basename(f))
                 /\ ~ StartsWith(Basename(f), ".")

\* C5: on a valid input with every external call succeeding, sign_ipa
\* returns success and the output archive holds an entry under Payload/ and
\* an entry named Info.plist.
C5_ValidInputSucceeds ==
    Returned /\ ValidInput /\ fault = "" /\ write_failed = {} =>
      /\ result.ret = "ok"
      /\ \E a \in DOMAIN outzip : Len(a) > 1 /\ a[1] = "Payload"
      /\ \E a \in DOMAIN outzip : Basename(a) = "Info.plist"

\* C6: a successful run's output archive is at least half the size of the
\* input archive, and an output smaller than that makes package_ipa raise
\* and sign_ipa return failure.
C6_SuccessAtLeastHalf ==
    /\ result.ret = "ok" =>
         2 * ZipSize(outzip, file_size) >= ZipSize(ipa, file_size)
    /\ outzip_exists /\ 2 * ZipSize(outzip, file_size) < ZipSize(ipa, file_size) =>
         result.ret = "fail" /\ raised = "package_ipa"

\* a successful run whose output is smaller than its input
C6_Witness ==
    /\ Returned
    /\ result.ret = "ok"
    /\ ZipSize(outzip, file_size) < ZipSize(ipa, file_size)

\* C7: when package_ipa has returned a path, the archive holds every file of
\* the extraction root at its relative path, and no file failed to be written.
C7_ArchiveComplete ==
    pc = "cleanup" /\ result.ret = "ok" =>
      /\ write_failed = {}
      /\ \A p \in DOMAIN tree : p \in DOMAIN outzip /\ outzip[p] = tree[p]

\* C8: no file with a resource extension is passed to sign_file.
C8_ResourcesNotSigned ==
    \A f \in sign_calls : ~ IsResourceName(Basename(f))

\* C9: a signed file still has the content it had before sign_file, in the
\* bundle and in the output archive.
C9_SignedFileUnchanged ==
    /\ \A f \in signed \cap DOMAIN tree : tree[f] = bundle0[f]
    /\ \A f \in signed \cap DOMAIN outzip : outzip[f] = bundle0[f]

\* C10: after a successful run the archive's embedded.mobileprovision has
\* exactly the bytes of the uploaded profile.
C10_ProfileBytesKept ==
    Returned /\ result.ret = "ok" =>
      /\ EmbeddedPath(app_path) \in DOMAIN outzip
      /\ outzip[EmbeddedPath(app_path)] = ProfileBytes

\* the characters of the model's names, in code-point order
CodePoints == ".0123456789ABCDEFGHIJKLMNOPQRSTUVWXYZ_abcdefghijklmnopqrstuvwxyz"

Rank(c) == CHOOSE i \in 1..Len(CodePoints) : SubSeq(CodePoints, i, i) = c

\* a < b in the lexicographic order of strings
RECURSIVE StrLess(_, _)
StrLess(a, b) ==
    IF Len(b) = 0 THEN FALSE
    ELSE IF Len(a) = 0 THEN TRUE
    ELSE IF SubSeq(a, 1, 1) # SubSeq(b, 1, 1)
    THEN Rank(SubSeq(a, 1, 1)) < Rank(SubSeq(b, 1, 1))
    ELSE StrLess(SubSeq(a, 2, Len(a)), SubSeq(b, 2, Len(b)))

\* C11: the bundle extract_ipa selects is the lexicographically first entry
\* of the Payload directory that ends in ".app", whatever the listing order.
C11_FirstAppSelected ==
    app_path # None =>
      \A n \in AppDirs(ipa, Dirname(app_path)) : ~ StrLess(n, Basename(app_path))

\* the top-level entries of the input archive that extract_ipa takes as the
\* Payload directory when there is none named exactly "Payload"
C12_PayloadLike == { n \in ListDir(ipa, <<>>) : Lower(n) = "payload" }

\* the directory extract_ipa looks into holds no entry ending in ".app"
C12_NoAppEntry ==
    \A n \in C12_PayloadLike :
      (Exists(ipa, <<"Payload">>) => n = "Payload")
        => ~ \E m \in ListDir(ipa, <<n>>) : EndsWith(m, ".app")

\* zipfile.ZipFile or extractall raised in extract_ipa
C12_CannotOpen == raised = "extract_ipa" /\ fault = "zipfile"

C12_ExtractRan == pc \notin { "create_temp_dir", "extract_ipa" } /\ raised # "create_temp_dir"

C12_Rejected ==
    /\ raised = "extract_ipa"
    /\ app_path = None
    /\ sign_calls = {}
    /\ signed_ipa_path = None
    /\ ~ outzip_exists
    /\ Returned => result.ret = "fail"

\* C12 as stated: extract_ipa fails, sets no bundle, and neither signing nor
\* packaging runs, when the archive cannot be opened, the tree has no
\* top-level directory named Payload, or Payload has no ".app" entry.
C12_NoPayloadFails ==
    C12_ExtractRan /\ (C12_CannotOpen \/ ~ Exists(ipa, <<"Payload">>) \/ C12_NoAppEntry)
      => C12_Rejected

\* C12 amended: a top-level entry whose lower-cased name is "payload" counts
\* as the Payload directory; extract_ipa fails when there is none.
C12_NoPayloadLikeFails ==
    C12_ExtractRan /\ (C12_CannotOpen \/ C12_PayloadLike = {} \/ C12_NoAppEntry)
      => C12_Rejected

\* extract_ipa has failed on an archive whose Payload holds a file but no
\* ".app" entry
C12_Witness ==
    /\ Returned
    /\ Exists(ipa, <<"Payload", "readme.txt">>)
    /\ C12_NoAppEntry
    /\ ~ C12_CannotOpen
    /\ C12_Rejected

\* C13: with a wrong password extract_certificates raises and sign_ipa
\* returns failure; no file is passed to sign_file after an extraction that
\* failed.
C13_WrongPasswordFails ==
    /\ p12 = "wrong_password" =>
         /\ cert_outcome # "ok"
         /\ pc # "sign"
         /\ sign_calls = {}
         /\ signed_ipa_path = None
         /\ Returned => result.ret = "fail"
         /\ Returned /\ cert_outcome # "" => raised = "extract_certificates"
    /\ cert_outcome \notin { "", "ok" } => sign_calls = {} /\ pc # "sign"

\* a run has returned after openssl pkcs12 rejected the password
C13_Witness ==
    /\ Returned
    /\ p12 = "wrong_password"
    /\ cert_outcome = "cert_cmd_fails"
    /\ raised = "extract_certificates"
    /\ result.ret = "fail"

\* the assets of the manifest a call produced
C14_Assets == manifest.items[1].assets

C14_OfKind(kind) == { i \in 1..Len(C14_Assets) : C14_Assets[i].kind = kind }

\* C14: called with bundle id, package URL and title, the builder produces
\* exactly one asset, of kind software-package, and no image asset; with an
\* icon URL supplied as well, exactly one display-image asset with
\* needs-shine true is added.
C14_ManifestAssets ==
    manifest # NoManifest =>
      /\ manifest.error = ""
      /\ Len(manifest.items) = 1
      /\ Cardinality(C14_OfKind("software-package")) = 1
      /\ Len(call_args) = 3 => Len(C14_Assets) = 1
      /\ Len(call_args) > 3 =>
           /\ Len(C14_Assets) = 2
           /\ \E i \in C14_OfKind("display-image") :
                /\ C14_Assets[i].needs_shine = TRUE
                /\ C14_Assets[i].url = call_args[4]

\* the part of C14 that holds: without an icon URL
C14_NoIconOneAsset ==
    manifest # NoManifest /\ Len(call_args) = 3 =>
      /\ manifest.error = ""
      /\ Len(manifest.items) = 1
      /\ Len(C14_Assets) = 1
      /\ C14_Assets[1] = [kind |-> "software-package", url |-> call_args[2]]

\* C15: of two requests handled at the same time, neither writes a path
\* the other reads or writes.
C15_NoSharedPaths ==
    \A r, q \in DOMAIN req :
      r # q => req[r].writes \cap (req[q].writes \cup req[q].reads) = {}

\* the part of C15 that holds: the scratch directories, and so the
\* credential files extracted into them, are never shared
C15_OwnScratch ==
    \A r, q \in DOMAIN req :
      r # q /\ req[r].temp_dir # None => req[r].temp_dir # req[q].temp_dir

\* C16: a run of sign_ipa never stays inside an external tool call: either
\* it has returned or one of its stages can still take a step.
C16_ReturnsOrCanStep == Returned \/ ENABLED Next

\* C17: whatever release fails inside cleanup, sign_ipa still returns, and
\* it returns the pair it had determined before cleanup ran.
C17_CleanupKeepsResult ==
    [][pc = "cleanup" =>
         /\ pc' = "done"
         /\ result' = result
         /\ result'.ret \in { "ok", "fail" }]_vars

\* a successful run has returned its archive although a release failed
C17_Witness ==
    /\ Returned
    /\ cleanup_error # ""
    /\ result.ret = "ok"
    /\ result.value = Basename(signed_ipa_path)

\* C18: a container that opens but whose certificate is not an iOS
\* signing identity is rejected by extract_certificates: nothing is signed
\* and sign_ipa returns failure.
C18_NonIosRejected ==
    p12 = "not_ios" =>
      /\ cert_outcome # "ok"
      /\ sign_calls = {}
      /\ Returned => result.ret = "fail"

\* C19: what sign_ipa prints and returns does not depend on the password: a
\* run with any other password that takes the same stage outcomes ends with
\* the same message (the except clause prints the message it returns).
C19_OutputWithoutPassword ==
    Returned /\ raised = "extract_certificates" =>
      \A pw \in Passwords :
        cert_outcome \in CertOutcomes(p12, pw) =>
          result.value = "Signing failed: Failed to extract certificates: "
                           \o CertError(cert_outcome, pw)

\* C20: sign_file is called only after extract_certificates returned True,
\* and package_ipa starts only after the walk has passed every candidate
\* file to sign_file.
C20_StageOrder ==
    /\ sign_calls # {} =>
         /\ cert_outcome = "ok"
         /\ cert_path # None
         /\ key_path # None
         /\ { "cert.pem", "key.pem" } \subseteq tmpfiles \/ pc = "done"
    /\ pc \in { "create_temp_dir", "extract_ipa", "copy_provision",
                "extract_certificates" } => sign_calls = {}
    /\ signed_ipa_path # None \/ outzip_exists \/ raised = "package_ipa" =>
         /\ todo = {}
         /\ Candidates \subseteq sign_calls
         /\ sign_calls = signed

\* package_ipa has run after a walk that signed two files
C20_Witness ==
    /\ signed_ipa_path # None
    /\ Cardinality(sign_calls) >= 2
    /\ Candidates = sign_calls
    /\ pc = "cleanup"

\* C21: when sign_ipa returned success, sign_app goes on to the end of its
\* success branch: the bundle id is read, the manifest is generated and the
\* SignedApp record is committed.
C21_SuccessPathCompletes ==
    result.ret = "ok" /\ handler # NoHandler =>
      /\ handler.flash = "App signed successfully"
      /\ handler.bundle_id # ""
      /\ handler.manifest # NoManifest
      /\ handler.committed

\* the credential files extract_certificates writes, as archive entries
C22_CredentialEntries == { <<"cert.pem">>, <<"key.pem">>, <<"openssl.cnf">> }

\* C22: the archive package_ipa writes holds files of the extracted tree
\* only, and so none of cert.pem, key.pem and openssl.cnf of temp_dir.
C22_NoCredentialsInArchive ==
    outzip_exists =>
      /\ DOMAIN outzip \subseteq DOMAIN bundle0
      /\ DOMAIN outzip \cap C22_CredentialEntries = {}
      /\ \A a \in DOMAIN outzip : a[1] # "ipa_contents"

\* package_ipa has written an archive while the three files were in temp_dir
C22_Witness ==
    /\ pc = "cleanup"
    /\ outzip_exists
    /\ DOMAIN outzip # {}
    /\ scratch
    /\ { "cert.pem", "key.pem", "openssl.cnf" } \subseteq tmpfiles

\* C23: when sign_ipa has returned failure, no archive written by the run
\* is left at signed_ipa_path.
C23_NoArchiveAfterFailure ==
    Returned /\ result.ret = "fail" => ~ outzip_exists

\* extract_ipa has returned True and no later stage has touched the bundle
C24_Extracted == pc \in { "copy_provision", "extract_certificates" }

\* C24: once extract_ipa has returned True, app_path is set and
\* app_path/Info.plist is a parsable property list with CFBundleIdentifier.
C24_InfoPlistInPlace ==
    C24_Extracted =>
      /\ app_path # None
      /\ Join(app_path, "Info.plist") \in DOMAIN tree
      /\ tree[Join(app_path, "Info.plist")].tag = "plist"

\* extract_ipa has returned True on an archive whose Info.plist was not at
\* app_path/Info.plist and was copied there
C24_Witness ==
    /\ pc = "copy_provision"
    /\ Join(app_path, "Info.plist") \notin DOMAIN ipa
    /\ Join(app_path, "Info.plist") \in DOMAIN tree
    /\ tree[Join(app_path, "Info.plist")] = ipa[app_path \o <<"Contents", "Info.plist">>]

\* C25: a file for which sign_file returned False (or has not returned) has
\* the content it had before the call.
C25_FailedSignLeavesFile ==
    \A f \in sign_calls \ signed :
      f \in DOMAIN tree => tree[f] = bundle0[f]

====
